---- MODULE Spec2Model ----
(***************************************************************************)
(* Signal-graph composites of Tone.js: the connect discipline of           *)
(* Tone.SignalBase, the GreaterThan comparator, the Follower envelope      *)
(* follower and the PingPongDelay stereo feedback delay.                   *)
(*                                                                         *)
(* All real numbers (seconds, hertz) are fixed-point: a real x is the      *)
(* integer x * TicksPerSecond, and one tick is one processing quantum.     *)
(***************************************************************************)
EXTENDS Integers, Sequences, FiniteSets, TLC

\* ------------------------------------------------------------------ bounds
MaxDuration == 5        \* attack/release durations range over -1..MaxDuration ticks
TicksPerSecond == 2     \* resolution of the fixed-point numbers
MaxSample == 1          \* samples range over -MaxSample..MaxSample
MaxValue == 2           \* held parameter values range over 0..MaxValue
MaxDelayTime == 3       \* PingPongDelay delay times range over 1..MaxDelayTime ticks
MaxDispose == 2         \* dispose() is called at most this often on one composite

\* --------------------------------------------------------- program constants
FilterQ == -100         \* this._filter.Q.value
MultGain == 10000       \* new Tone.Multiply(10000)
bufferTime == 1         \* Tone.prototype.bufferTime: one processing quantum, in ticks

NoEvent == 0 - 1        \* a parameter with no scheduled automation
PosInf == (TicksPerSecond * TicksPerSecond) + 1   \* IEEE +Infinity: above every finite frequency

VARIABLES
    composite,   \* which object was constructed: "Signal", "Follower", "GreaterThan", "PingPongDelay"
    option,      \* the constructor's numeric option (GreaterThan: value, PingPongDelay:
                 \* delayTime); for a Signal, the value its destination held before the
                 \* last connect
    nodes,       \* the fields of the composite that reference a primitive (not null);
                 \* for a Signal, the destination it is connected to
    edges,       \* the connections <<source, destination>> of the audio graph
    value,       \* the held value of every Signal and AudioParam
    sched,       \* the scheduled automation target of every Signal and AudioParam, or NoEvent
    _attack,     \* Follower._attack
    _release,    \* Follower._release
    curve,       \* the table of the Follower's wave shaper
    ext,         \* the sample every external source feeds into the graph in this block
    filterOut,   \* the output of the Follower's low-pass filter in this block
    line,        \* the samples in flight in every delay line, newest first
    now,         \* blocks rendered since the impulse entered the PingPongDelay (-1: none yet)
    impulse,     \* the PingPongDelay input the impulse entered, or "none"
    calls,       \* the engine calls made by the last operation, in order
    raised,      \* whether the last operation threw a TypeError
    disposals,   \* how many times dispose() was called
    released,    \* the primitives released by the dispose() calls before the last operation
    last         \* the last operation <<name, subject, object>>

vars == <<composite, option, nodes, edges, value, sched, _attack, _release, curve,
          ext, filterOut, line, now, impulse, calls, raised, disposals, released, last>>

\* ------------------------------------------------------------ the objects
FollowerFields == {"input", "output", "_abs", "_filter", "_frequencyValues",
                   "_sub", "_delay", "_mult"}
GreaterThanFields == {"_value", "_gtz"}
BaseFields == {"effectSendL", "effectSendR", "effectReturnL", "effectReturnR",
               "_feedbackLR", "_feedbackRL"}
PingPongFields == {"_leftDelay", "_rightDelay", "delayTime"}

\* Signals and AudioParams: the objects that hold a value
ParamObjs == {"_filter.frequency", "_filter.Q", "_delay.delayTime", "_sub.input1",
              "_value.input1", "delayTime", "_leftDelay.delayTime",
              "_rightDelay.delayTime", "dest", "gain.gain"}
DelayNodes == {"_delay", "_leftDelay", "_rightDelay"}
ExtPorts == {"input", "operand", "threshold", "effectSendL", "effectSendR", "source"}
Samples == (0 - MaxSample)..MaxSample
Envelopes == 0..MaxSample     \* a low-pass filtered rectified signal is not negative

\* what processing a unit does
Kind(n) ==
    CASE n \in {"input", "output", "gain", "comparator"} \cup BaseFields -> "gain"
      [] n \in {"operand", "threshold", "source"} -> "source"
      [] n = "_abs" -> "abs"
      [] n = "_filter" -> "filter"
      [] n \in DelayNodes -> "delay"
      [] n \in {"_sub", "_value"} -> "subtract"
      [] n = "_mult" -> "multiply"
      [] n = "_frequencyValues" -> "waveshaper"
      [] n = "_gtz" -> "gtz"
      [] n \in {"_sub.input1", "_value.input1", "delayTime", "dest"} -> "signal"
      [] OTHER -> "param"

\* what connect() sees when the object is passed as its `node` argument
Class(n) ==
    CASE Kind(n) = "signal" -> "Signal"
      [] Kind(n) = "param" -> "AudioParam"
      [] Kind(n) \in {"gain", "filter", "delay"} /\ n # "comparator" -> "AudioNode"
      [] OTHER -> "Tone"

\* the units whose connect method is Tone.SignalBase.prototype.connect
IsSignalBase(n) ==
    Kind(n) \in {"source", "abs", "subtract", "multiply", "waveshaper", "gtz", "signal"}

\* unit.input[inputNumber]: input 1 of a Subtract is its inner Signal
Resolve(node, inputNumber) ==
    IF Kind(node) = "subtract" /\ inputNumber = 1
    THEN (IF node = "_sub" THEN "_sub.input1" ELSE "_value.input1")
    ELSE node

\* the delay-time parameter of a delay line
DelayParam(n) ==
    CASE n = "_delay" -> "_delay.delayTime"
      [] n = "_leftDelay" -> "_leftDelay.delayTime"
      [] n = "_rightDelay" -> "_rightDelay.delayTime"

\* the unit a parameter or inner signal belongs to
Owner(p) ==
    CASE p \in {"_filter.frequency", "_filter.Q"} -> "_filter"
      [] p = "_delay.delayTime" -> "_delay"
      [] p = "_sub.input1" -> "_sub"
      [] p = "_value.input1" -> "_value"
      [] p = "_leftDelay.delayTime" -> "_leftDelay"
      [] p = "_rightDelay.delayTime" -> "_rightDelay"
      [] p = "gain.gain" -> "gain"
      [] OTHER -> p

Max(a, b) == IF a >= b THEN a ELSE b
Abs(v) == IF v < 0 THEN 0 - v ELSE v

\* ------------------------------------------------------- signal evaluation
\* the table of the wave shaper, consulted per sample
Lookup(c, val) == IF val <= 0 THEN c.nonpos ELSE c.pos

RECURSIVE Out(_, _), SumOut(_, _)

\* the engine sums all the signals connected to one input
In(S, n) == SumOut(S, {e[1] : e \in {f \in S.edges : f[2] = n}})

SumOut(S, srcs) ==
    IF srcs = {} THEN 0
    ELSE LET s == CHOOSE u \in srcs : TRUE
         IN Out(S, s) + SumOut(S, srcs \ {s})

\* the sample at the output of unit n in the current block
Out(S, n) ==
    CASE Kind(n) = "source" -> S.ext[n]
      [] Kind(n) = "gain" -> (IF n \in ExtPorts THEN S.ext[n] ELSE 0) + In(S, n)
      [] Kind(n) = "abs" -> Abs(In(S, n))
      [] Kind(n) = "filter" -> S.filterOut
      [] Kind(n) = "delay" ->
            IF S.line[n] = <<>> THEN In(S, n) ELSE S.line[n][Len(S.line[n])]
      [] Kind(n) = "subtract" -> In(S, n) - Out(S, Resolve(n, 1))
      [] Kind(n) = "multiply" -> In(S, n) * MultGain
      [] Kind(n) = "waveshaper" -> Lookup(S.curve, In(S, n))
      [] Kind(n) = "gtz" -> (IF In(S, n) > 0 THEN 1 ELSE 0)
      [] OTHER -> S.value[n] + In(S, n)

\* the graph as the render context sees it in the current block
Rendered == [edges |-> edges, value |-> value, ext |-> ext, filterOut |-> filterOut,
             line |-> line, curve |-> curve]

\* ------------------------------------------------------- connect discipline
\* the part of the state a control-context handler changes, with the calls it makes
Wired == [edges |-> edges, value |-> value, sched |-> sched, calls |-> <<>>]

Unwired == [edges |-> {}, value |-> [p \in ParamObjs |-> 0],
            sched |-> [p \in ParamObjs |-> NoEvent], calls |-> <<>>]

\* param.value = v
SetValue(G, p, v) == [G EXCEPT !.value[p] = v]

\* param.cancelScheduledValues(0); param.value = 0
CancelAndReset(G, p) ==
    [G EXCEPT !.sched[p] = NoEvent, !.value[p] = 0,
              !.calls = @ \o << <<"cancelScheduledValues", p>>, <<"value=0", p>> >>]

\* Tone.prototype.connect / AudioNode.prototype.connect: add the edge
ToneConnect(G, src, node, inputNumber) ==
    [G EXCEPT !.edges = @ \cup {<<src, Resolve(node, inputNumber)>>},
              !.calls = Append(@, <<"connect", Resolve(node, inputNumber)>>)]

\* connect that adds the edge without zeroing the destination
ConnectWithoutZeroing(G, src, node, inputNumber) == ToneConnect(G, src, node, inputNumber)

\* Tone.SignalBase.prototype.connect
SignalBaseConnect(G, src, node, inputNumber) ==
    LET zeroed == IF Class(node) = "Signal" THEN CancelAndReset(G, node)
                  ELSE IF Class(node) = "AudioParam" THEN CancelAndReset(G, node)
                  ELSE G
    IN ToneConnect(zeroed, src, node, inputNumber)

\* a.connect(b): the connect method of a's class
Connect(G, a, b) ==
    IF IsSignalBase(a) THEN SignalBaseConnect(G, a, b, 0) ELSE ToneConnect(G, a, b, 0)

\* a.chain(b, c, ...): connect the units in series
RECURSIVE Chain(_, _)
Chain(G, units) ==
    IF Len(units) < 2 THEN G
    ELSE Chain(Connect(G, units[1], units[2]), Tail(units))

\* a.fan(b, c, ...): connect a to every one of the units
RECURSIVE Fan(_, _, _)
Fan(G, a, units) ==
    IF units = <<>> THEN G
    ELSE Fan(Connect(G, a, Head(units)), a, Tail(units))

\* node.disconnect(): remove every connection leaving the node
Disconnect(G, n) ==
    [G EXCEPT !.edges = {e \in @ : e[1] # n},
              !.calls = Append(@, <<"disconnect", n>>)]

\* unit.dispose() of a Tone primitive: disconnect it and release it
Dispose(G, n) ==
    [G EXCEPT !.edges = {e \in @ : e[1] # n},
              !.calls = Append(@, <<"dispose", n>>)]

\* the statements `this.f.disconnect(); this.f = null` and `this.f.dispose();
\* this.f = null` of a dispose method, in order; reading a method off a field
\* that is already null throws a TypeError and ends the method
RECURSIVE Release(_, _)
Release(R, steps) ==
    IF steps = <<>> \/ R.raised THEN R
    ELSE LET s == Head(steps)
         IN IF s[2] \notin R.live
            THEN [R EXCEPT !.raised = TRUE]
            ELSE Release([g |-> IF s[1] = "dispose" THEN Dispose(R.g, s[2])
                                ELSE Disconnect(R.g, s[2]),
                          live |-> R.live \ {s[2]},
                          raised |-> FALSE],
                         Tail(steps))

\* Tone.prototype.dispose: disconnect input and output where they are still
\* AudioNodes, and set both to null
RECURSIVE ToneDispose(_, _)
ToneDispose(G, ports) ==
    IF ports = {} THEN G
    ELSE LET n == CHOOSE u \in ports : TRUE
         IN ToneDispose(Disconnect(G, n), ports \ {n})

\* the handler's effect on the graph
Commit(G) ==
    /\ edges' = G.edges
    /\ value' = G.value
    /\ sched' = G.sched
    /\ calls' = G.calls

Did(op) == last' = op

\* the delay of every delay line of a freshly wired graph, in ticks, and the
\* silent lines of that length
Silent(G) ==
    LET S == [edges |-> G.edges, value |-> G.value,
              ext |-> [p \in ExtPorts |-> 0], filterOut |-> 0,
              line |-> [n \in DelayNodes |-> <<>>],
              curve |-> [nonpos |-> 0, pos |-> 0]]
    IN [n \in DelayNodes |-> [i \in 1..Out(S, DelayParam(n)) |-> 0]]

\* one block later: every delay line takes in the sample at its input
Advance(S) ==
    [n \in DelayNodes |->
        IF S.line[n] = <<>> THEN <<>>
        ELSE <<In(S, n)>> \o SubSeq(S.line[n], 1, Len(S.line[n]) - 1)]

\* the engine pulls nothing through a graph that was taken apart
Quiet ==
    /\ ext' = [p \in ExtPorts |-> 0]
    /\ filterOut' = 0
    /\ line' = [n \in DelayNodes |-> <<>>]

\* --------------------------------------------------------------- Follower
Durations == (0 - 1)..MaxDuration

\* Tone.prototype.toSeconds of a number: the number
toSeconds(time) == time

\* Tone.prototype.secondsToFrequency: 1 / seconds, as IEEE division computes it
secondsToFrequency(seconds) ==
    IF seconds = 0 THEN PosInf
    ELSE IF seconds < 0
         THEN 0 - ((TicksPerSecond * TicksPerSecond) \div (0 - seconds))
         ELSE (TicksPerSecond * TicksPerSecond) \div seconds

\* a table with the two branches of the mapping exchanged
SetAttackReleaseExchanged(attack, release) ==
    LET minTime == bufferTime
        a == secondsToFrequency(toSeconds(attack))
        r == secondsToFrequency(toSeconds(release))
    IN [nonpos |-> Max(r, minTime), pos |-> Max(a, minTime)]

\* Tone.Follower.prototype._setAttackRelease: the table setMap builds
SetAttackRelease(attack, release) ==
    LET minTime == bufferTime
        a == secondsToFrequency(toSeconds(attack))
        r == secondsToFrequency(toSeconds(release))
    IN [nonpos |-> Max(a, minTime), pos |-> Max(r, minTime)]

\* a constructor with the two inputs of the subtractor exchanged
FollowerWiringExchanged ==
    LET G0 == SetValue(SetValue(SetValue(Unwired, "_filter.frequency", 0),
                                "_filter.Q", FilterQ),
                       "_delay.delayTime", bufferTime)
        G1 == Chain(G0, <<"input", "_abs", "_filter", "output">>)
        G2 == SignalBaseConnect(G1, "_abs", "_sub", 0)
        G3 == ToneConnect(Connect(G2, "_filter", "_delay"), "_delay", "_sub", 1)
    IN Chain(G3, <<"_sub", "_mult", "_frequencyValues", "_filter.frequency">>)

\* a constructor that chains the filter straight into the subtractor
FollowerWiringWithoutDelay ==
    LET G0 == SetValue(SetValue(SetValue(Unwired, "_filter.frequency", 0),
                                "_filter.Q", FilterQ),
                       "_delay.delayTime", bufferTime)
        G1 == Chain(G0, <<"input", "_abs", "_filter", "output">>)
        G2 == SignalBaseConnect(G1, "_abs", "_sub", 1)
        G3 == Chain(G2, <<"_filter", "_sub">>)
    IN Chain(G3, <<"_sub", "_mult", "_frequencyValues", "_filter.frequency">>)

\* the wiring of the Follower's constructor
FollowerWiring ==
    LET G0 == SetValue(SetValue(SetValue(Unwired, "_filter.frequency", 0),
                                "_filter.Q", FilterQ),
                       "_delay.delayTime", bufferTime)
        G1 == Chain(G0, <<"input", "_abs", "_filter", "output">>)
        G2 == SignalBaseConnect(G1, "_abs", "_sub", 1)
        G3 == Chain(G2, <<"_filter", "_delay", "_sub">>)
    IN Chain(G3, <<"_sub", "_mult", "_frequencyValues", "_filter.frequency">>)

InitFollower ==
    /\ composite = "Follower"
    /\ option = 0
    /\ nodes = FollowerFields
    /\ edges = FollowerWiring.edges
    /\ value = FollowerWiring.value
    /\ sched = FollowerWiring.sched
    /\ calls = FollowerWiring.calls
    /\ _attack \in Durations
    /\ _release \in Durations
    /\ curve = SetAttackRelease(_attack, _release)
    /\ ext = [p \in ExtPorts |-> 0]
    /\ filterOut = 0
    /\ line = Silent(FollowerWiring)
    /\ now = 0 - 1
    /\ impulse = "none"
    /\ raised = FALSE
    /\ disposals = 0
    /\ released = {}
    /\ last = <<"new", "Follower", "">>

\* a setter that wires the table into the filter again after rebuilding it
SetAttackRewiring(attack) ==
    /\ composite = "Follower"
    /\ _attack' = attack
    /\ IF "_frequencyValues" \in nodes
       THEN /\ curve' = SetAttackRelease(attack, _release)
            /\ raised' = FALSE
            /\ Commit(Connect(Disconnect(Wired, "_frequencyValues"),
                              "_frequencyValues", "_filter"))
       ELSE curve' = curve /\ raised' = TRUE /\ Commit(Wired)
    /\ released' = FollowerFields \ nodes
    /\ Did(<<"set", "attack", "">>)
    /\ UNCHANGED <<composite, option, nodes, _release, ext, filterOut, line, now,
                   impulse, disposals>>

\* the setter of Follower.attack
SetAttack(attack) ==
    /\ composite = "Follower"
    /\ _attack' = attack
    /\ IF "_frequencyValues" \in nodes
       THEN curve' = SetAttackRelease(attack, _release) /\ raised' = FALSE
       ELSE curve' = curve /\ raised' = TRUE
    /\ calls' = <<>>
    /\ released' = FollowerFields \ nodes
    /\ Did(<<"set", "attack", "">>)
    /\ UNCHANGED <<composite, option, nodes, edges, value, sched, _release, ext,
                   filterOut, line, now, impulse, disposals>>

\* the setter of Follower.release
SetRelease(release) ==
    /\ composite = "Follower"
    /\ _release' = release
    /\ IF "_frequencyValues" \in nodes
       THEN curve' = SetAttackRelease(_attack, release) /\ raised' = FALSE
       ELSE curve' = curve /\ raised' = TRUE
    /\ calls' = <<>>
    /\ released' = FollowerFields \ nodes
    /\ Did(<<"set", "release", "">>)
    /\ UNCHANGED <<composite, option, nodes, edges, value, sched, _attack, ext,
                   filterOut, line, now, impulse, disposals>>

\* the engine renders one block of the Follower: the input takes a new sample,
\* the filter (an engine primitive) puts out some sample, the delay moves on
FollowerRender(x, s) ==
    /\ composite = "Follower"
    /\ disposals = 0
    /\ ext' = [ext EXCEPT !["input"] = x]
    /\ filterOut' = s
    /\ line' = Advance(Rendered)
    /\ calls' = <<>>
    /\ raised' = FALSE
    /\ released' = {}
    /\ Did(<<"render", "Follower", "">>)
    /\ UNCHANGED <<composite, option, nodes, edges, value, sched, _attack, _release,
                   curve, now, impulse, disposals>>

\* the body of Tone.Follower.prototype.dispose
FollowerRelease(G, live) ==
    LET base == ToneDispose(G, {"input", "output"} \cap live)
    IN Release([g |-> base, live |-> live \ {"input", "output"}, raised |-> FALSE],
               << <<"disconnect", "_filter">>,
                  <<"disconnect", "_frequencyValues">>,
                  <<"disconnect", "_delay">>,
                  <<"disconnect", "_sub">>,
                  <<"dispose", "_abs">>,
                  <<"dispose", "_mult">> >>)

\* Tone.Follower.prototype.dispose
FollowerDispose ==
    /\ composite = "Follower"
    /\ disposals < MaxDispose
    /\ disposals' = disposals + 1
    /\ LET R == FollowerRelease(Wired, nodes)
       IN /\ Commit(R.g)
          /\ nodes' = R.live
          /\ raised' = R.raised
    /\ released' = FollowerFields \ nodes
    /\ Quiet
    /\ Did(<<"dispose", "Follower", "">>)
    /\ UNCHANGED <<composite, option, _attack, _release, curve, now, impulse>>

\* ------------------------------------------------------------ GreaterThan
\* new Tone.Subtract(value): the value is held by the Signal at input 1
SubtractValue(G, value_) == SetValue(G, "_value.input1", value_)

\* a constructor that does not hand its value to the subtractor
GreaterThanWiringDroppingValue(value_) ==
    LET G1 == SignalBaseConnect(Unwired, "_value", "_gtz", 0)
    IN SignalBaseConnect(G1, "operand", "_value", 0)

\* the wiring of the GreaterThan constructor; the signal under test is
\* connected to input 0, which is the subtractor
GreaterThanWiring(value_) ==
    LET G0 == SubtractValue(Unwired, value_)
        G1 == SignalBaseConnect(G0, "_value", "_gtz", 0)
    IN SignalBaseConnect(G1, "operand", "_value", 0)

InitGreaterThan ==
    /\ composite = "GreaterThan"
    /\ option \in Samples
    /\ nodes = GreaterThanFields
    /\ edges = GreaterThanWiring(option).edges
    /\ value = GreaterThanWiring(option).value
    /\ sched = GreaterThanWiring(option).sched
    /\ calls = GreaterThanWiring(option).calls
    /\ _attack = 0
    /\ _release = 0
    /\ curve = [nonpos |-> 0, pos |-> 0]
    /\ ext = [p \in ExtPorts |-> 0]
    /\ filterOut = 0
    /\ line = Silent(GreaterThanWiring(option))
    /\ now = 0 - 1
    /\ impulse = "none"
    /\ raised = FALSE
    /\ disposals = 0
    /\ released = {}
    /\ last = <<"new", "GreaterThan", "">>

\* a signal is connected to input port 1, the Signal that holds the threshold
ConnectThreshold ==
    /\ composite = "GreaterThan"
    /\ disposals = 0
    /\ Commit(SignalBaseConnect(Wired, "threshold", Resolve("_value", 1), 0))
    /\ raised' = FALSE
    /\ released' = {}
    /\ Did(<<"connect", "threshold", "_value.input1">>)
    /\ UNCHANGED <<composite, option, nodes, _attack, _release, curve, ext, filterOut,
                   line, now, impulse, disposals>>

\* the engine renders one block of the GreaterThan with samples a and t
GreaterThanRender(a, t) ==
    /\ composite = "GreaterThan"
    /\ disposals = 0
    /\ ext' = [ext EXCEPT !["operand"] = a, !["threshold"] = t]
    /\ calls' = <<>>
    /\ raised' = FALSE
    /\ released' = {}
    /\ Did(<<"render", "GreaterThan", "">>)
    /\ UNCHANGED <<composite, option, nodes, edges, value, sched, _attack, _release,
                   curve, filterOut, line, now, impulse, disposals>>

\* the body of Tone.GreaterThan.prototype.dispose; input is an array and output
\* a Tone unit, so Tone.prototype.dispose disconnects no AudioNode
GreaterThanRelease(G, live) ==
    LET base == ToneDispose(G, {})
    IN Release([g |-> base, live |-> live, raised |-> FALSE],
               << <<"dispose", "_value">>, <<"dispose", "_gtz">> >>)

\* Tone.GreaterThan.prototype.dispose
GreaterThanDispose ==
    /\ composite = "GreaterThan"
    /\ disposals < MaxDispose
    /\ disposals' = disposals + 1
    /\ LET R == GreaterThanRelease(Wired, nodes)
       IN /\ Commit(R.g)
          /\ nodes' = R.live
          /\ raised' = R.raised
    /\ released' = GreaterThanFields \ nodes
    /\ Quiet
    /\ Did(<<"dispose", "GreaterThan", "">>)
    /\ UNCHANGED <<composite, option, _attack, _release, curve, now, impulse>>

\* ---------------------------------------------------------- PingPongDelay
DelayTimes == bufferTime..MaxDelayTime
MaxTicks == (2 * MaxDelayTime) + 1

\* Tone.StereoXFeedbackEffect: each return feeds the opposite channel's send
StereoXFeedbackEffectWiring(G) ==
    Chain(Chain(G, <<"effectReturnL", "_feedbackLR", "effectSendR">>),
          <<"effectReturnR", "_feedbackRL", "effectSendL">>)

\* Tone.StereoXFeedbackEffect.prototype.dispose: release the base's own
\* resources that are still held
StereoXFeedbackEffectDispose(G, live) == ToneDispose(G, BaseFields \cap live)

\* a constructor that chains the right send past the right delay line
PingPongWiringBypassingRight(delayTime_) ==
    LET G0 == StereoXFeedbackEffectWiring(Unwired)
        G1 == SetValue(G0, "delayTime", delayTime_)
        G2 == Chain(G1, <<"effectSendL", "_leftDelay", "effectReturnL">>)
        G3 == Chain(G2, <<"effectSendR", "effectReturnR">>)
        G4 == Fan(G3, "delayTime", <<"_leftDelay.delayTime", "_rightDelay.delayTime">>)
        G5 == Disconnect(G4, "_feedbackRL")
    IN Connect(G5, "_feedbackRL", "_leftDelay")

\* the wiring of the PingPongDelay constructor
PingPongWiring(delayTime_) ==
    LET G0 == StereoXFeedbackEffectWiring(Unwired)
        G1 == SetValue(G0, "delayTime", delayTime_)
        G2 == Chain(G1, <<"effectSendL", "_leftDelay", "effectReturnL">>)
        G3 == Chain(G2, <<"effectSendR", "_rightDelay", "effectReturnR">>)
        G4 == Fan(G3, "delayTime", <<"_leftDelay.delayTime", "_rightDelay.delayTime">>)
        G5 == Disconnect(G4, "_feedbackRL")
    IN Connect(G5, "_feedbackRL", "_leftDelay")

InitPingPong ==
    /\ composite = "PingPongDelay"
    /\ option \in DelayTimes
    /\ nodes = BaseFields \cup PingPongFields
    /\ edges = PingPongWiring(option).edges
    /\ value = PingPongWiring(option).value
    /\ sched = PingPongWiring(option).sched
    /\ calls = PingPongWiring(option).calls
    /\ _attack = 0
    /\ _release = 0
    /\ curve = [nonpos |-> 0, pos |-> 0]
    /\ ext = [p \in ExtPorts |-> 0]
    /\ filterOut = 0
    /\ line = Silent(PingPongWiring(option))
    /\ now = 0 - 1
    /\ impulse = "none"
    /\ raised = FALSE
    /\ disposals = 0
    /\ released = {}
    /\ last = <<"new", "PingPongDelay", "">>

\* a single impulse enters one input of the silent PingPongDelay
PingPongImpulse(channel) ==
    /\ composite = "PingPongDelay"
    /\ disposals = 0
    /\ now = 0 - 1
    /\ now' = 0
    /\ impulse' = channel
    /\ ext' = [ext EXCEPT ![channel] = 1]
    /\ calls' = <<>>
    /\ raised' = FALSE
    /\ released' = {}
    /\ Did(<<"render", "PingPongDelay", channel>>)
    /\ UNCHANGED <<composite, option, nodes, edges, value, sched, _attack, _release,
                   curve, filterOut, line, disposals>>

\* the engine renders the next block of the PingPongDelay; the inputs are silent
PingPongRender ==
    /\ composite = "PingPongDelay"
    /\ disposals = 0
    /\ now >= 0
    /\ now < MaxTicks
    /\ now' = now + 1
    /\ ext' = [p \in ExtPorts |-> 0]
    /\ line' = Advance(Rendered)
    /\ calls' = <<>>
    /\ raised' = FALSE
    /\ released' = {}
    /\ Did(<<"render", "PingPongDelay", "">>)
    /\ UNCHANGED <<composite, option, nodes, edges, value, sched, _attack, _release,
                   curve, filterOut, impulse, disposals>>

\* a dispose that releases its own fields before the inherited ones
PingPongReleaseOwnFirst(G, live) ==
    LET own == Release([g |-> G, live |-> live, raised |-> FALSE],
                       << <<"disconnect", "_leftDelay">>,
                          <<"disconnect", "_rightDelay">>,
                          <<"dispose", "delayTime">> >>)
    IN IF own.raised THEN own
       ELSE [g |-> StereoXFeedbackEffectDispose(own.g, own.live),
             live |-> own.live \ BaseFields, raised |-> FALSE]

\* the body of Tone.PingPongDelay.prototype.dispose
PingPongRelease(G, live) ==
    LET base == StereoXFeedbackEffectDispose(G, live)
    IN Release([g |-> base, live |-> live \ BaseFields, raised |-> FALSE],
               << <<"disconnect", "_leftDelay">>,
                  <<"disconnect", "_rightDelay">>,
                  <<"dispose", "delayTime">> >>)

\* Tone.PingPongDelay.prototype.dispose
PingPongDispose ==
    /\ composite = "PingPongDelay"
    /\ disposals < MaxDispose
    /\ disposals' = disposals + 1
    /\ LET R == PingPongRelease(Wired, nodes)
       IN /\ Commit(R.g)
          /\ nodes' = R.live
          /\ raised' = R.raised
    /\ released' = (BaseFields \cup PingPongFields) \ nodes
    /\ Quiet
    /\ Did(<<"dispose", "PingPongDelay", "">>)
    /\ UNCHANGED <<composite, option, _attack, _release, curve, now, impulse>>

\* ------------------------------------------- a Signal and its destinations
\* the objects a source is connected to: a Tone.Signal, an AudioParam, a plain
\* AudioNode and a unit of a class that extends Tone.Signal
Destinations == {"dest", "gain.gain", "gain", "comparator"}
ControlParams == {"dest", "gain.gain"}
Sources == {"source", "output"}
Values == 0..MaxValue

InitSignal ==
    /\ composite = "Signal"
    /\ option = 0
    /\ \E node \in Destinations : nodes = {node}
    /\ edges = {}
    /\ value = Unwired.value
    /\ sched = Unwired.sched
    /\ calls = <<>>
    /\ _attack = 0
    /\ _release = 0
    /\ curve = [nonpos |-> 0, pos |-> 0]
    /\ ext = [p \in ExtPorts |-> 0]
    /\ filterOut = 0
    /\ line = Silent(Unwired)
    /\ now = 0 - 1
    /\ impulse = "none"
    /\ raised = FALSE
    /\ disposals = 0
    /\ released = {}
    /\ last = <<"new", "Signal", "">>

\* param.value = v
SetParam(p, v) ==
    /\ composite = "Signal"
    /\ p \in nodes
    /\ Commit(SetValue(Wired, p, v))
    /\ Did(<<"set", p, "">>)
    /\ UNCHANGED <<composite, option, nodes, _attack, _release, curve, ext, filterOut,
                   line, now, impulse, raised, disposals, released>>

\* param.setValueAtTime(v, later): automation is scheduled
Schedule(p, v) ==
    /\ composite = "Signal"
    /\ p \in nodes
    /\ Commit([Wired EXCEPT !.sched[p] = v])
    /\ Did(<<"schedule", p, "">>)
    /\ UNCHANGED <<composite, option, nodes, _attack, _release, curve, ext, filterOut,
                   line, now, impulse, raised, disposals, released>>

\* the engine reaches the time of the scheduled automation
Automate(p) ==
    /\ composite = "Signal"
    /\ p \in nodes
    /\ sched[p] # NoEvent
    /\ Commit([Wired EXCEPT !.value[p] = sched[p], !.sched[p] = NoEvent])
    /\ Did(<<"automate", p, "">>)
    /\ UNCHANGED <<composite, option, nodes, _attack, _release, curve, ext, filterOut,
                   line, now, impulse, raised, disposals, released>>

\* signal.connect(node): Tone.SignalBase.prototype.connect
SignalConnect(node) ==
    /\ composite = "Signal"
    /\ node \in nodes
    /\ Commit(SignalBaseConnect(Wired, "source", node, 0))
    /\ option' = (IF node \in ParamObjs THEN value[node] ELSE 0)
    /\ Did(<<"connect", "source", node>>)
    /\ UNCHANGED <<composite, nodes, _attack, _release, curve, ext, filterOut,
                   line, now, impulse, raised, disposals, released>>

\* follower.connect(node): the method borrowed from Tone.Signal; the edge
\* leaves the follower's output
FollowerConnect(node) ==
    /\ composite = "Signal"
    /\ node \in nodes
    /\ Commit(SignalBaseConnect(Wired, "output", node, 0))
    /\ option' = (IF node \in ParamObjs THEN value[node] ELSE 0)
    /\ Did(<<"connect", "output", node>>)
    /\ UNCHANGED <<composite, nodes, _attack, _release, curve, ext, filterOut,
                   line, now, impulse, raised, disposals, released>>

\* source.disconnect(); the operation remembers the destination when the
\* same source was connected by the operation just before
SourceDisconnect(src) ==
    /\ composite = "Signal"
    /\ Commit(Disconnect(Wired, src))
    /\ Did(<<"disconnect", src,
             IF last[1] = "connect" /\ last[2] = src THEN last[3] ELSE "">>)
    /\ UNCHANGED <<composite, option, nodes, _attack, _release, curve, ext, filterOut,
                   line, now, impulse, raised, disposals, released>>

\* ------------------------------------------------------ the specification
Init == InitSignal \/ InitFollower \/ InitGreaterThan \/ InitPingPong

Next ==
    \/ \E p \in ControlParams, v \in Values : SetParam(p, v)
    \/ \E p \in ControlParams, v \in Values : Schedule(p, v)
    \/ \E p \in ControlParams : Automate(p)
    \/ \E node \in Destinations : SignalConnect(node)
    \/ \E node \in Destinations : FollowerConnect(node)
    \/ \E src \in Sources : SourceDisconnect(src)
    \/ \E a \in Durations : SetAttack(a)
    \/ \E r \in Durations : SetRelease(r)
    \/ \E x \in Samples, s \in Envelopes : FollowerRender(x, s)
    \/ FollowerDispose
    \/ ConnectThreshold
    \/ \E a \in Samples, t \in Samples : GreaterThanRender(a, t)
    \/ GreaterThanDispose
    \/ \E channel \in {"effectSendL", "effectSendR"} : PingPongImpulse(channel)
    \/ PingPongRender
    \/ PingPongDispose

Spec == Init /\ [][Next]_vars

\* ------------------------------------------------------------- properties
\* the calls of the last operation made on one of the objects
CallsOn(objects) == {i \in DOMAIN calls : calls[i][2] \in objects}

\* C1: after connect(source, dest) on a Signal or an AudioParam the automation
\* of dest is cancelled and its held value is 0, both before the edge was
\* added; and after the source is disconnected right after that connect, dest
\* still reads 0, whatever it held before
C1_ConnectZeroesDestination ==
    (last[1] \in {"connect", "disconnect"} /\ last[3] \in ParamObjs) =>
        /\ value[last[3]] = 0
        /\ sched[last[3]] = NoEvent
        /\ last[1] = "connect" =>
              /\ calls = << <<"cancelScheduledValues", last[3]>>,
                            <<"value=0", last[3]>>,
                            <<"connect", last[3]>> >>
              /\ <<last[2], last[3]>> \in edges
        /\ last[1] = "disconnect" => <<last[2], last[3]>> \notin edges

\* a source was connected to a Signal that held a value other than 0 and was
\* disconnected at once
C1_Witness ==
    /\ composite = "Signal"
    /\ last = <<"disconnect", "output", "dest">>
    /\ option > 0
    /\ value["dest"] = 0

\* C2: the second dispose() of a composite does not raise and calls
\* disconnect/dispose on no primitive the first dispose() released
C2_SecondDisposeIsSafe ==
    (last[1] = "dispose" /\ disposals >= 2) =>
        /\ ~raised
        /\ CallsOn(released) = {}

C4_PingPongEchoes ==
    (composite = "PingPongDelay" /\ disposals = 0 /\ impulse = "effectSendL") =>
        LET left == Out(Rendered, "effectReturnL")
            right == Out(Rendered, "effectReturnR")
        IN /\ now < option => left = 0
           /\ now = option => left # 0
           /\ now < 2 * option => right = 0
           /\ now = 2 * option => right # 0
           /\ right # 0 => now > option

\* the first echo on the right output of a PingPongDelay with a delay of more
\* than one tick
C4_Witness ==
    /\ composite = "PingPongDelay"
    /\ disposals = 0
    /\ impulse = "effectSendL"
    /\ option > 1
    /\ now = 2 * option
    /\ Out(Rendered, "effectReturnR") # 0

\* C5: an assignment to attack or release leaves the primitives, the
\* connections, the held values and the signals as they were; only the stored
\* attack or release and the table change
C5_SettersKeepTopology ==
    [][(composite = "Follower" /\ last'[1] = "set") =>
          /\ nodes' = nodes
          /\ edges' = edges
          /\ value' = value
          /\ sched' = sched
          /\ line' = line
          /\ (last'[2] = "attack" => _release' = _release)
          /\ (last'[2] = "release" => _attack' = _attack)]_vars

\* attack was assigned on a live Follower and the table took the new value
C5_Witness ==
    /\ composite = "Follower"
    /\ disposals = 0
    /\ last = <<"set", "attack", "">>
    /\ _attack = 2
    /\ _release = 1
    /\ curve = SetAttackRelease(2, 1)
    /\ nodes = FollowerFields

\* C6: on a live Follower both values of the table equal
\* max(secondsToFrequency(seconds), processing quantum), are finite and above
\* zero, and no assignment raises
C6_TableIsClamped ==
    (composite = "Follower" /\ disposals = 0) =>
        /\ curve.nonpos = Max(secondsToFrequency(_attack), bufferTime)
        /\ curve.pos = Max(secondsToFrequency(_release), bufferTime)
        /\ curve.nonpos > 0 /\ curve.nonpos < PosInf
        /\ curve.pos > 0 /\ curve.pos < PosInf
        /\ ~raised

\* C7 as stated: dispose() of a PingPongDelay releases the two delay lines and
\* the delayTime signal before the resources of the base effect, and in the
\* end all three fields are released
C7_OwnFieldsBeforeBase ==
    (composite = "PingPongDelay" /\ last[1] = "dispose" /\ disposals = 1) =>
        /\ \A i \in CallsOn(PingPongFields), j \in CallsOn(BaseFields) : i < j
        /\ nodes \cap PingPongFields = {}

\* C7 amended: dispose() of a PingPongDelay releases the resources of the base
\* effect first, then disconnects the left and the right delay line and
\* disposes the delayTime signal, in this order; in the end all three fields
\* are released
C7_BaseBeforeOwnFields ==
    (composite = "PingPongDelay" /\ last[1] = "dispose" /\ disposals = 1) =>
        /\ \A i \in CallsOn(BaseFields), j \in CallsOn(PingPongFields) : i < j
        /\ CallsOn(BaseFields) = 1..Cardinality(BaseFields)
        /\ SubSeq(calls, Cardinality(BaseFields) + 1, Len(calls))
              = << <<"disconnect", "_leftDelay">>,
                   <<"disconnect", "_rightDelay">>,
                   <<"dispose", "delayTime">> >>
        /\ nodes \cap PingPongFields = {}
        /\ ~raised

\* the first dispose() of a PingPongDelay that had echoed has made its calls
C7_Witness ==
    /\ composite = "PingPongDelay"
    /\ last[1] = "dispose"
    /\ disposals = 1
    /\ now > 0
    /\ Len(calls) = Cardinality(BaseFields) + Cardinality(PingPongFields)
    /\ edges = {}

\* C8 as stated: the subtractor of a live Follower puts out d = r - s', with
\* the rectified input r at input 0 and the delayed filter output s' at input 1
C8_RectifiedMinusDelayed ==
    (composite = "Follower" /\ disposals = 0) =>
        LET r == Out(Rendered, "_abs")
            sd == Out(Rendered, "_delay")
        IN /\ Out(Rendered, "_sub") = r - sd
           /\ <<"_abs", "_sub">> \in edges
           /\ <<"_delay", "_sub.input1">> \in edges

\* C8 amended: the subtractor of a live Follower puts out d = s' - r, with the
\* delayed filter output s' at input 0 and the rectified input r at input 1,
\* so d < 0 exactly when the rectified input is above the delayed envelope
C8_DelayedMinusRectified ==
    (composite = "Follower" /\ disposals = 0) =>
        LET r == Out(Rendered, "_abs")
            sd == Out(Rendered, "_delay")
        IN /\ Out(Rendered, "_sub") = sd - r
           /\ {e \in edges : e[2] = "_sub"} = {<<"_delay", "_sub">>}
           /\ {e \in edges : e[2] = "_sub.input1"} = {<<"_abs", "_sub.input1">>}
           /\ Out(Rendered, "_sub") < 0 <=> r > sd
           /\ r = Abs(ext["input"])
           /\ sd = line["_delay"][1]

\* the rectified input of a live Follower is above the delayed envelope
C8_Witness ==
    /\ composite = "Follower"
    /\ disposals = 0
    /\ ext["input"] = 0 - 1
    /\ Out(Rendered, "_abs") = 1
    /\ Out(Rendered, "_delay") = 0
    /\ Out(Rendered, "_sub") = 0 - 1

\* C9: the value driven into the cutoff of the filter of a live Follower is
\* the frequency of attack while the rectified input is above the delayed
\* filter output and the frequency of release while it is below; it is the
\* table's value for the difference with or without the gain
C9_CutoffFollowsDirection ==
    (composite = "Follower" /\ disposals = 0) =>
        LET r == Out(Rendered, "_abs")
            sd == Out(Rendered, "_delay")
            cutoff == Out(Rendered, "_filter.frequency")
        IN /\ r > sd => cutoff = Max(secondsToFrequency(_attack), bufferTime)
           /\ r < sd => cutoff = Max(secondsToFrequency(_release), bufferTime)
           /\ cutoff = Lookup(curve, Out(Rendered, "_sub"))
           /\ cutoff = Lookup(curve, Out(Rendered, "_mult"))

\* a rising envelope drives the cutoff with the frequency of attack, which
\* differs from that of release
C9_Witness ==
    /\ composite = "Follower"
    /\ disposals = 0
    /\ Out(Rendered, "_abs") > Out(Rendered, "_delay")
    /\ _attack = 1
    /\ _release = 2
    /\ Out(Rendered, "_filter.frequency") = secondsToFrequency(1)
    /\ secondsToFrequency(1) # secondsToFrequency(2)

\* the flow of signal from unit to unit: an edge into a parameter or an inner
\* signal flows into the unit that owns it
Flow == {<<e[1], Owner(e[2])>> : e \in edges}

\* a delay line that holds its input back for a processing quantum or more
Delaying(n) == n \in DelayNodes /\ Len(line[n]) >= bufferTime

RECURSIVE Reach(_, _)
Reach(E, from) ==
    LET more == from \cup {e[2] : e \in {f \in E : f[1] \in from}}
    IN IF more = from THEN from ELSE Reach(E, more)

Cyclic(E) == \E e \in E : e[1] \in Reach(E, {e[2]})

\* C10: between construction and disposal no cycle of the graph of a Follower
\* or a PingPongDelay avoids every delay line of a processing quantum or more
C10_EveryCycleIsDelayed ==
    (composite \in {"Follower", "PingPongDelay"} /\ disposals = 0) =>
        ~Cyclic({e \in Flow : ~Delaying(e[1]) /\ ~Delaying(e[2])})

\* the graph of a Follower has a cycle after a setter ran
C10_Witness ==
    /\ composite = "Follower"
    /\ disposals = 0
    /\ last[1] = "set"
    /\ Cyclic(Flow)
    /\ "_filter" \in Reach(Flow, {"_delay"})

====
